---------------------------- MODULE Spec2Model ----------------------------
(***************************************************************************)
(* State-machine model of the VNSync server (src/src/VNSyncServer.ts,      *)
(* src/src/eventValidator.ts and the helpers of src/unnamed/part_012).     *)
(*                                                                         *)
(* Every value a client can send is an integer:                            *)
(*   - socket ids are 1..MaxSockets, allocated in increasing order; the    *)
(*     transport puts every connected socket in a room named by its id;    *)
(*   - generated room names are RoomBase+1 .. RoomBase+MaxRooms;           *)
(*   - a session id is the id of the socket that first held the session;   *)
(*   - usernames and clipboard entries are positive integers, EmptyString  *)
(*     is the string "", Undefined a missing argument and NonString a      *)
(*     truthy argument that is not a string.                               *)
(* Handlers run to completion (single-threaded event loop), so one action  *)
(* is one handler with every nested call it makes.  The handshake          *)
(* middlewares and the connection handler run in the same tick             *)
(* (process.nextTick) and form one action.                                 *)
(***************************************************************************)
EXTENDS Integers, Sequences, FiniteSets, TLC

\* ------------------------------------------------------------- bounds
MaxSockets == 4
CoreSockets == 3
MaxRooms == 1
MaxUsernames == 2
MaxEntries == 1
MaxPosts == 3
PairSockets == 2
PairRooms == 2
MaxTime == 1

RoomBase == 100

SocketIds == 1..MaxSockets
RoomNames == (RoomBase + 1)..(RoomBase + MaxRooms)
Names == SocketIds \cup RoomNames
WideRoomNames == (RoomBase + 1)..(RoomBase + PairRooms)
AllNames == Names \cup WideRoomNames
Usernames == 1..MaxUsernames
ClipboardEntries == 1..MaxEntries
Addresses == {"10.0.0.1", "10.0.0.2"}

EmptyString == 0
Undefined == -1
NonString == -2
NoRoom == 0
NoSession == 0
NoSocket == 0

badReasons == {"ping timeout", "transport close", "transport error"}
expectedReasons == {"client namespace disconnect"}
serverDisconnect == "server namespace disconnect"

VARIABLES
  clients,        \* io.of("/").sockets: socket id -> [address, data]
  rooms,          \* io.sockets.adapter.rooms: name -> sequence of socket ids
  ghostSessions,  \* this.ghostSessions, in insertion order
  addresses,      \* this.addresses: address -> count, for the addresses it holds
  threw,          \* an exception escaped a handler
  nextId,         \* next socket id the transport hands out
  now,            \* Date.now()
  ev,             \* the event handled by the last step and its result
  sent,           \* the notifications emitted by the last step, in order
  pre,            \* the server state the last step started from
  configuration,  \* the Configuration the server was constructed with
  pending         \* sockets past the middleware chain whose "connection" event
                  \* is still queued, oldest first

vars == <<clients, rooms, ghostSessions, addresses, threw, nextId, now, ev, sent, pre,
          configuration, pending>>

\* socket.data of a socket whose data was never assigned ({}).
undefinedData ==
  [sessionId |-> NoSession, username |-> EmptyString, isHost |-> FALSE,
   room |-> NoRoom, isReady |-> FALSE, clipboard |-> <<>>]

\* The server state a handler works on.
St ==
  [clients |-> clients, rooms |-> rooms, ghostSessions |-> ghostSessions,
   addresses |-> addresses, threw |-> threw, sent |-> <<>>]

Msg(type, room, to, sessionId, clipboard, membersState) ==
  [type |-> type, room |-> room, to |-> to, sessionId |-> sessionId,
   clipboard |-> clipboard, membersState |-> membersState]

Remove(seq, x) == SelectSeq(seq, LAMBDA y : y # x)

InSeq(seq, x) == \E i \in 1..Len(seq) : seq[i] = x

SeqToSet(seq) == {seq[i] : i \in 1..Len(seq)}

\* ------------------------------------------------------------- helpers.ts
roomExists(S, roomName) == roomName \in AllNames /\ S.rooms[roomName] # <<>>

getRoomMembers(S, roomName) == S.rooms[roomName]

\* members.find((member) => member.data.isHost): the first host in room order.
findHost(S, members) ==
  LET hosts == SelectSeq(members, LAMBDA m : S.clients[m].data.isHost)
  IN IF hosts = <<>> THEN NoSocket ELSE Head(hosts)

getClientBySessionId(S, sessionId) ==
  LET found == {c \in DOMAIN S.clients : S.clients[c].data.sessionId = sessionId}
  IN IF found = {} THEN NoSocket
     ELSE CHOOSE c \in found : \A d \in found : c <= d

\* ------------------------------------------------------------- address throttle
\* this.addresses.set(key, value)
mapSet(map, key, value) ==
  [k \in (DOMAIN map) \cup {key} |-> IF k = key THEN value ELSE map[k]]

\* this.addresses.delete(key)
mapDelete(map, key) == [k \in (DOMAIN map) \ {key} |-> map[k]]

\* isAddressBlocked admitting one connection more than the ceiling.
isAddressBlocked_above(S, address) ==
  IF address \notin DOMAIN S.addresses THEN FALSE
  ELSE S.addresses[address] > configuration.maxConnectionsFromSingleSource

isAddressBlocked(S, address) ==
  IF address \notin DOMAIN S.addresses THEN FALSE
  ELSE S.addresses[address] >= configuration.maxConnectionsFromSingleSource

addAddress(S, address) ==
  IF address \notin DOMAIN S.addresses
  THEN [S EXCEPT !.addresses = mapSet(@, address, 1)]
  ELSE [S EXCEPT !.addresses = mapSet(@, address, @[address] + 1)]

\* removeAddress keeping an entry with count 0 in the map.
removeAddress_keepsEntry(S, address) ==
  IF address \notin DOMAIN S.addresses THEN [S EXCEPT !.threw = TRUE]
  ELSE [S EXCEPT !.addresses = mapSet(@, address, @[address] - 1)]

removeAddress(S, address) ==
  IF address \notin DOMAIN S.addresses THEN [S EXCEPT !.threw = TRUE]
  ELSE IF S.addresses[address] - 1 <= 0
  THEN [S EXCEPT !.addresses = mapDelete(@, address)]
  ELSE [S EXCEPT !.addresses = mapSet(@, address, @[address] - 1)]

\* ------------------------------------------------------------- room state
emitRoomStateChange(S, roomName) ==
  IF ~roomExists(S, roomName) THEN [S EXCEPT !.threw = TRUE]
  ELSE
    LET members == getRoomMembers(S, roomName)
        host == findHost(S, members)
        membersState ==
          [i \in 1..Len(members) |->
             [username |-> S.clients[members[i]].data.username,
              isReady |-> S.clients[members[i]].data.isReady,
              isHost |-> S.clients[members[i]].data.isHost]]
        clipboard == IF host = NoSocket THEN <<>> ELSE S.clients[host].data.clipboard
    IN [S EXCEPT !.sent = Append(@,
          Msg("roomStateChange", roomName, SeqToSet(members), NoSession,
              clipboard, membersState))]

entireRoomReadyCheck(S, roomName) ==
  IF ~roomExists(S, roomName) THEN S
  ELSE
    LET members == getRoomMembers(S, roomName)
        everyoneIsReady == \A i \in 1..Len(members) : S.clients[members[i]].data.isReady
        reset == [S EXCEPT !.clients =
                    [c \in DOMAIN @ |->
                       IF InSeq(members, c) THEN [@[c] EXCEPT !.data.isReady = FALSE]
                       ELSE @[c]]]
        host == findHost(S, members)
    IN IF ~everyoneIsReady THEN S
       ELSE IF host = NoSocket THEN reset
       ELSE [reset EXCEPT !.sent = Append(@,
               Msg("roomReady", roomName, SeqToSet(S.rooms[host]), NoSession,
                   <<>>, <<>>))]

\* ------------------------------------------------------------- disconnects
RECURSIVE socketDisconnect(_, _, _)
RECURSIVE disconnectSockets(_, _)
RECURSIVE handleRoomDisconnect(_, _)
RECURSIVE onDisconnect(_, _, _)

\* this.ghostSessions.set(sessionId, ghost): a Map keeps the position of a key
\* it already holds.
ghostSet(ghosts, ghost) ==
  IF \E i \in 1..Len(ghosts) : ghosts[i].sessionId = ghost.sessionId
  THEN [i \in 1..Len(ghosts) |->
          IF ghosts[i].sessionId = ghost.sessionId THEN ghost ELSE ghosts[i]]
  ELSE Append(ghosts, ghost)

ghostDelete(ghosts, sessionId) ==
  SelectSeq(ghosts, LAMBDA g : g.sessionId # sessionId)

\* handleRoomDisconnect without the branch of the host.
handleRoomDisconnect_noTeardown(S, data) ==
  IF data.room = NoRoom \/ ~roomExists(S, data.room) THEN S
  ELSE emitRoomStateChange(entireRoomReadyCheck(S, data.room), data.room)

handleRoomDisconnect(S, data) ==
  IF data.room = NoRoom \/ ~roomExists(S, data.room) THEN S
  ELSE IF data.isHost THEN disconnectSockets(S, data.room)
  ELSE emitRoomStateChange(entireRoomReadyCheck(S, data.room), data.room)

onDisconnect(S, data, reason) ==
  IF reason \in badReasons
  THEN [S EXCEPT !.ghostSessions =
          ghostSet(@, [sessionId |-> data.sessionId, leftAt |-> now, data |-> data])]
  ELSE handleRoomDisconnect(S, data)

\* Socket._onclose of the transport followed by the "disconnect" listener of
\* initServer: the socket leaves every room and the client table, then
\* onDisconnect and removeAddress run.
socketDisconnect(S, c, reason) ==
  IF c \notin DOMAIN S.clients THEN S
  ELSE
    LET cl == S.clients[c]
        left == [S EXCEPT
                   !.rooms = [n \in AllNames |-> Remove(@[n], c)],
                   !.clients = [x \in (DOMAIN @) \ {c} |-> @[x]]]
    IN removeAddress(onDisconnect(left, cl.data, reason), cl.address)

\* this.io.in(roomName).disconnectSockets(): every socket of the room is
\* disconnected in room order; each disconnect runs its listener before the
\* next socket is taken.
disconnectSockets(S, roomName) ==
  IF ~roomExists(S, roomName) THEN S
  ELSE disconnectSockets(
         socketDisconnect(S, Head(S.rooms[roomName]), serverDisconnect), roomName)

\* A join that leaves the room directory as it is.
socketJoin_skips(S, c, roomName) == S

\* socket.join(roomName)
socketJoin(S, c, roomName) ==
  IF InSeq(S.rooms[roomName], c) THEN S
  ELSE [S EXCEPT !.rooms[roomName] = Append(@, c)]

\* ------------------------------------------------------------- eventValidator.ts
nonEmptyString(fieldName) == [kind |-> "nonEmptyString", fieldName |-> fieldName]

string(fieldName) == [kind |-> "string", fieldName |-> fieldName]

typeofString(field) == field >= 0

\* rule(field): <<passed, message>>
applyRule(rule, field) ==
  IF rule.kind = "nonEmptyString"
  THEN <<typeofString(field) /\ field # EmptyString,
         IF rule.fieldName = "Username"
         THEN "Username should be a non-empty string."
         ELSE "Room name should be a non-empty string.">>
  ELSE <<typeofString(field), "Clipboard entry should be a string.">>

\* args[key] || undefined
argOrUndefined(args, key) ==
  IF key > Len(args) THEN Undefined
  ELSE IF args[key] \in {EmptyString, Undefined} THEN Undefined
  ELSE args[key]

\* The fail message of the first rule that does not pass, "" for null.
validateEventArguments(rules, args) ==
  LET failing == {k \in 1..Len(rules) : ~applyRule(rules[k], argOrUndefined(args, k))[1]}
  IN IF failing = {} THEN ""
     ELSE LET k == CHOOSE i \in failing : \A j \in failing : i <= j
          IN applyRule(rules[k], argOrUndefined(args, k))[2]

validateRoomPresence(data, expected) ==
  LET isInRoom == data.room # NoRoom
  IN IF isInRoom = expected THEN ""
     ELSE IF expected THEN "This user is not yet in a room."
     ELSE "This user is already in a room."

\* ------------------------------------------------------------- handlers
\* An EventResult and the state the handler leaves.  A failMessage built from
\* a template is the template with the value put into it as arg.
Result(S, status, message, data) ==
  [S |-> S, status |-> status, message |-> message, data |-> data, arg |-> Undefined]

onCreateRoom(S, c, username, roomName) ==
  LET joined == socketJoin(
        [S EXCEPT !.clients[c].data.username = username,
                  !.clients[c].data.room = roomName,
                  !.clients[c].data.isHost = TRUE], c, roomName)
  IN Result(emitRoomStateChange(joined, roomName), "ok", "", roomName)

\* onJoinRoom reading the members' usernames before it asks whether the room
\* exists: getRoomMembers throws for a room that does not, and no result is sent.
onJoinRoom_usernameFirst(S, c, username, roomName) ==
  IF ~roomExists(S, roomName)
  THEN Result([S EXCEPT !.threw = TRUE], "", "", NoRoom)
  ELSE IF \E i \in 1..Len(getRoomMembers(S, roomName)) :
            S.clients[getRoomMembers(S, roomName)[i]].data.username = username
  THEN [Result(S, "fail",
          "Username \"<username>\" is already taken by someone else in this room.", NoRoom)
          EXCEPT !.arg = username]
  ELSE
    LET joined == socketJoin(
          [S EXCEPT !.clients[c].data.room = roomName,
                    !.clients[c].data.username = username], c, roomName)
    IN Result(emitRoomStateChange(joined, roomName), "ok", "", NoRoom)

onJoinRoom(S, c, username, roomName) ==
  IF ~roomExists(S, roomName)
  THEN [Result(S, "fail", "Room \"<roomName>\" doesn't exist.", NoRoom)
          EXCEPT !.arg = roomName]
  ELSE IF \E i \in 1..Len(getRoomMembers(S, roomName)) :
            S.clients[getRoomMembers(S, roomName)[i]].data.username = username
  THEN [Result(S, "fail",
          "Username \"<username>\" is already taken by someone else in this room.", NoRoom)
          EXCEPT !.arg = username]
  ELSE
    LET joined == socketJoin(
          [S EXCEPT !.clients[c].data.room = roomName,
                    !.clients[c].data.username = username], c, roomName)
    IN Result(emitRoomStateChange(joined, roomName), "ok", "", NoRoom)

onToggleReady(S, c) ==
  LET roomName == S.clients[c].data.room
      toggled == [S EXCEPT !.clients[c].data.isReady = ~@]
  IN Result(emitRoomStateChange(entireRoomReadyCheck(toggled, roomName), roomName),
            "ok", "", NoRoom)

\* The clipboard update without the slice.
clipboardInsert_unbounded(clipboard, clipboardEntry) ==
  <<clipboardEntry>> \o clipboard

clipboardInsert(clipboard, clipboardEntry) ==
  SubSeq(<<clipboardEntry>> \o clipboard, 1,
         IF Len(clipboard) + 1 < configuration.maxClipboardEntries
         THEN Len(clipboard) + 1 ELSE configuration.maxClipboardEntries)

\* onUpdateClipboard putting the entry in the caller's clipboard before it asks
\* whether the caller is a host.
onUpdateClipboard_insertFirst(S, c, clipboardEntry) ==
  LET roomName == S.clients[c].data.room
      updated == [S EXCEPT !.clients[c].data.clipboard =
                    clipboardInsert(@, clipboardEntry)]
  IN IF ~S.clients[c].data.isHost
     THEN Result(updated, "fail", "This user is not a host.", NoRoom)
     ELSE Result(emitRoomStateChange(updated, roomName), "ok", "", NoRoom)

\* onUpdateClipboard broadcasting the room state before it changes the clipboard.
onUpdateClipboard_staleBroadcast(S, c, clipboardEntry) ==
  IF ~S.clients[c].data.isHost
  THEN Result(S, "fail", "This user is not a host.", NoRoom)
  ELSE
    LET roomName == S.clients[c].data.room
        emitted == emitRoomStateChange(S, roomName)
    IN Result([emitted EXCEPT !.clients[c].data.clipboard =
                 clipboardInsert(@, clipboardEntry)], "ok", "", NoRoom)

onUpdateClipboard(S, c, clipboardEntry) ==
  IF ~S.clients[c].data.isHost
  THEN Result(S, "fail", "This user is not a host.", NoRoom)
  ELSE
    LET roomName == S.clients[c].data.room
        updated == [S EXCEPT !.clients[c].data.clipboard =
                      clipboardInsert(@, clipboardEntry)]
    IN Result(emitRoomStateChange(updated, roomName), "ok", "", NoRoom)

\* A listener that checks room presence before the argument rules.
validationError_presenceFirst(S, c, rules, requirePresence, args) ==
  IF validateRoomPresence(S.clients[c].data, requirePresence) # ""
  THEN validateRoomPresence(S.clients[c].data, requirePresence)
  ELSE validateEventArguments(rules, args)

\* The listener registerEvent attaches: argument rules, then room presence,
\* then the handler.
validationError(S, c, rules, requirePresence, args) ==
  IF validateEventArguments(rules, args) # ""
  THEN validateEventArguments(rules, args)
  ELSE validateRoomPresence(S.clients[c].data, requirePresence)

\* ------------------------------------------------------------- connection
\* reconnectionMiddleare refusing without deleting the ghost session.
reconnectionMiddleare_keepsGhost(S, sessionId) ==
  LET ghosts == SelectSeq(S.ghostSessions, LAMBDA g : g.sessionId = sessionId)
      consumed == [S EXCEPT !.ghostSessions = ghostDelete(@, sessionId)]
      existingUser == getClientBySessionId(S, sessionId)
  IN IF sessionId = NoSession
     THEN [S |-> S, error |-> "", data |-> undefinedData, via |-> "new"]
     ELSE IF ghosts # <<>>
     THEN IF ~roomExists(S, Head(ghosts).data.room)
          THEN [S |-> S, error |-> "The room for this session no longer exists.",
                data |-> Head(ghosts).data, via |-> "ghost"]
          ELSE [S |-> consumed, error |-> "", data |-> Head(ghosts).data, via |-> "ghost"]
     ELSE IF existingUser # NoSocket
     THEN [S |-> socketDisconnect(S, existingUser, serverDisconnect), error |-> "",
           data |-> S.clients[existingUser].data, via |-> "existing"]
     ELSE [S |-> S, error |-> "", data |-> undefinedData, via |-> "unknown"]

\* reconnectionMiddleare taking over the data of a connected session without
\* closing its connection.
reconnectionMiddleare_keepsExisting(S, sessionId) ==
  LET ghosts == SelectSeq(S.ghostSessions, LAMBDA g : g.sessionId = sessionId)
      consumed == [S EXCEPT !.ghostSessions = ghostDelete(@, sessionId)]
      existingUser == getClientBySessionId(S, sessionId)
  IN IF sessionId = NoSession
     THEN [S |-> S, error |-> "", data |-> undefinedData, via |-> "new"]
     ELSE IF ghosts # <<>>
     THEN IF ~roomExists(consumed, Head(ghosts).data.room)
          THEN [S |-> consumed, error |-> "The room for this session no longer exists.",
                data |-> Head(ghosts).data, via |-> "ghost"]
          ELSE [S |-> consumed, error |-> "", data |-> Head(ghosts).data, via |-> "ghost"]
     ELSE IF existingUser # NoSocket
     THEN [S |-> S, error |-> "", data |-> S.clients[existingUser].data,
           via |-> "existing"]
     ELSE [S |-> S, error |-> "", data |-> undefinedData, via |-> "unknown"]

\* reconnectionMiddleare restoring a ghost session without deleting its entry.
reconnectionMiddleare_ghostStays(S, sessionId) ==
  LET ghosts == SelectSeq(S.ghostSessions, LAMBDA g : g.sessionId = sessionId)
      consumed == [S EXCEPT !.ghostSessions = ghostDelete(@, sessionId)]
      existingUser == getClientBySessionId(S, sessionId)
  IN IF sessionId = NoSession
     THEN [S |-> S, error |-> "", data |-> undefinedData, via |-> "new"]
     ELSE IF ghosts # <<>>
     THEN IF ~roomExists(consumed, Head(ghosts).data.room)
          THEN [S |-> consumed, error |-> "The room for this session no longer exists.",
                data |-> Head(ghosts).data, via |-> "ghost"]
          ELSE [S |-> S, error |-> "", data |-> Head(ghosts).data, via |-> "ghost"]
     ELSE IF existingUser # NoSocket
     THEN [S |-> socketDisconnect(S, existingUser, serverDisconnect), error |-> "",
           data |-> S.clients[existingUser].data, via |-> "existing"]
     ELSE [S |-> S, error |-> "", data |-> undefinedData, via |-> "unknown"]

\* reconnectionMiddleare: the state it leaves, the error it passes to next
\* ("" for none) and the data it attaches to the new socket.
reconnectionMiddleare(S, sessionId) ==
  LET ghosts == SelectSeq(S.ghostSessions, LAMBDA g : g.sessionId = sessionId)
      consumed == [S EXCEPT !.ghostSessions = ghostDelete(@, sessionId)]
      existingUser == getClientBySessionId(S, sessionId)
  IN IF sessionId = NoSession
     THEN [S |-> S, error |-> "", data |-> undefinedData, via |-> "new"]
     ELSE IF ghosts # <<>>
     THEN IF ~roomExists(consumed, Head(ghosts).data.room)
          THEN [S |-> consumed, error |-> "The room for this session no longer exists.",
                data |-> Head(ghosts).data, via |-> "ghost"]
          ELSE [S |-> consumed, error |-> "", data |-> Head(ghosts).data, via |-> "ghost"]
     ELSE IF existingUser # NoSocket
     THEN [S |-> socketDisconnect(S, existingUser, serverDisconnect), error |-> "",
           data |-> S.clients[existingUser].data, via |-> "existing"]
     ELSE [S |-> S, error |-> "", data |-> undefinedData, via |-> "unknown"]

onConnect(S, c) ==
  LET data == S.clients[c].data
      roomName == data.room
  IN IF roomName # NoRoom /\ ~roomExists(S, roomName) /\ ~data.isHost
     THEN socketDisconnect(S, c, serverDisconnect)
     ELSE IF roomName # NoRoom
     THEN emitRoomStateChange(socketJoin(S, c, roomName), roomName)
     ELSE [S EXCEPT
             !.clients[c].data =
                [sessionId |-> c, username |-> EmptyString, isHost |-> FALSE,
                 room |-> NoRoom, isReady |-> FALSE, clipboard |-> <<>>],
             !.sent = Append(@, Msg("sessionId", NoRoom, {c}, c, <<>>, <<>>))]

\* The "connection" listener of initServer for the new socket c: the transport
\* has put it in the client table and in the room named by its id.
connection(S, c, address, data) ==
  LET tracked == [S EXCEPT
                    !.clients = [x \in (DOMAIN @) \cup {c} |->
                                   IF x = c THEN [address |-> address, data |-> data]
                                   ELSE @[x]],
                    !.rooms[c] = <<c>>]
  IN onConnect(addAddress(tracked, address), c)

\* cleanGhostSessions deleting an expired entry without finalizing the
\* departure it stands for.
RECURSIVE cleanGhostSessions_forgets(_, _)
cleanGhostSessions_forgets(S, entries) ==
  IF entries = <<>> THEN S
  ELSE
    LET ghostSession == Head(entries)
        threshold == ghostSession.leftAt + configuration.ghostSessionLifetime
    IN IF now >= threshold
       THEN cleanGhostSessions_forgets(
              [S EXCEPT !.ghostSessions = ghostDelete(@, ghostSession.sessionId)],
              Tail(entries))
       ELSE cleanGhostSessions_forgets(S, Tail(entries))

\* cleanGhostSessions passing over the ghost sessions of hosts.
RECURSIVE cleanGhostSessions_sparesHosts(_, _)
cleanGhostSessions_sparesHosts(S, entries) ==
  IF entries = <<>> THEN S
  ELSE
    LET ghostSession == Head(entries)
        threshold == ghostSession.leftAt + configuration.ghostSessionLifetime
    IN IF now >= threshold /\ ~ghostSession.data.isHost
       THEN cleanGhostSessions_sparesHosts(
              [handleRoomDisconnect(S, ghostSession.data) EXCEPT
                 !.ghostSessions = ghostDelete(@, ghostSession.sessionId)],
              Tail(entries))
       ELSE cleanGhostSessions_sparesHosts(S, Tail(entries))

\* cleanGhostSessions sparing a ghost session whose age equals the lifetime.
RECURSIVE cleanGhostSessions_late(_, _)
cleanGhostSessions_late(S, entries) ==
  IF entries = <<>> THEN S
  ELSE
    LET ghostSession == Head(entries)
        threshold == ghostSession.leftAt + configuration.ghostSessionLifetime
    IN IF now > threshold
       THEN cleanGhostSessions_late(
              [handleRoomDisconnect(S, ghostSession.data) EXCEPT
                 !.ghostSessions = ghostDelete(@, ghostSession.sessionId)],
              Tail(entries))
       ELSE cleanGhostSessions_late(S, Tail(entries))

\* cleanGhostSessions over the entries the map held when the sweep began.
RECURSIVE cleanGhostSessions(_, _)
cleanGhostSessions(S, entries) ==
  IF entries = <<>> THEN S
  ELSE
    LET ghostSession == Head(entries)
        threshold == ghostSession.leftAt + configuration.ghostSessionLifetime
    IN IF now >= threshold
       THEN cleanGhostSessions(
              [handleRoomDisconnect(S, ghostSession.data) EXCEPT
                 !.ghostSessions = ghostDelete(@, ghostSession.sessionId)],
              Tail(entries))
       ELSE cleanGhostSessions(S, Tail(entries))

\* ------------------------------------------------------------- actions
NoEvent ==
  [op |-> "none", sock |-> NoSocket, sid |-> NoSession, address |-> "",
   args |-> <<>>, reason |-> "", status |-> "", message |-> "", via |-> "",
   room |-> NoRoom, arg |-> Undefined]

Snapshot ==
  [clients |-> clients, rooms |-> rooms, ghostSessions |-> ghostSessions,
   addresses |-> addresses, now |-> now]

\* The server state S and the event e as the step leaves them.
Record(S, e) ==
  /\ clients' = S.clients
  /\ rooms' = S.rooms
  /\ ghostSessions' = S.ghostSessions
  /\ addresses' = S.addresses
  /\ threw' = S.threw
  /\ sent' = S.sent
  /\ ev' = e
  /\ pre' = Snapshot
  /\ UNCHANGED configuration

\* A step from St to S that handled the event e with no queued "connection"
\* event touched.
Commit(S, e) == Record(S, e) /\ UNCHANGED pending

\* The state after new VNSyncServer(log, config).
Constructed(config) ==
  /\ clients = [c \in {} |-> [address |-> "", data |-> undefinedData]]
  /\ rooms = [n \in AllNames |-> <<>>]
  /\ ghostSessions = <<>>
  /\ addresses = [a \in {} |-> 0]
  /\ threw = FALSE
  /\ nextId = 1
  /\ now = 0
  /\ ev = NoEvent
  /\ sent = <<>>
  /\ pre = Snapshot
  /\ configuration = config
  /\ pending = <<>>

\* A Configuration (interfaces/Configuration.ts) with small values.
CoreConfiguration ==
  [maxConnectionsFromSingleSource |-> 3, maxClipboardEntries |-> 1,
   ghostSessionLifetime |-> 1]

Init == Constructed(CoreConfiguration)

\* A connection attempt whose middleware chain runs reconnectionMiddleare
\* before connectionLimitMiddleware.
Handshake_reconnectsFirst(address, sessionId) ==
  LET r == reconnectionMiddleare(St, sessionId)
      e == [NoEvent EXCEPT !.op = "handshake", !.address = address, !.sid = sessionId]
  IN IF r.error # ""
     THEN /\ Commit(r.S, [e EXCEPT !.status = "refused", !.message = r.error,
                            !.via = r.via])
          /\ UNCHANGED <<nextId, now>>
     ELSE IF isAddressBlocked(r.S, address)
     THEN /\ Commit(r.S, [e EXCEPT !.status = "refused",
                            !.message = "Too many connections from the same address."])
          /\ UNCHANGED <<nextId, now>>
     ELSE /\ nextId <= MaxSockets
          /\ Commit(connection(r.S, nextId, address, r.data),
                    [e EXCEPT !.status = "accepted", !.sock = nextId, !.via = r.via])
          /\ nextId' = nextId + 1
          /\ UNCHANGED now

\* A connection attempt: connectionLimitMiddleware, reconnectionMiddleare and,
\* when both call next() without an error, the "connection" listener.
Handshake(address, sessionId) ==
  LET r == reconnectionMiddleare(St, sessionId)
      e == [NoEvent EXCEPT !.op = "handshake", !.address = address, !.sid = sessionId]
  IN IF isAddressBlocked(St, address)
     THEN /\ Commit(St, [e EXCEPT !.status = "refused",
                           !.message = "Too many connections from the same address."])
          /\ UNCHANGED <<nextId, now>>
     ELSE IF r.error # ""
     THEN /\ Commit(r.S, [e EXCEPT !.status = "refused", !.message = r.error,
                            !.via = r.via])
          /\ UNCHANGED <<nextId, now>>
     ELSE /\ nextId <= MaxSockets
          /\ Commit(connection(r.S, nextId, address, r.data),
                    [e EXCEPT !.status = "accepted", !.sock = nextId, !.via = r.via])
          /\ nextId' = nextId + 1
          /\ UNCHANGED now

\* The middleware chain alone, for a connect request arriving while the
\* "connection" events of earlier requests of the same transport payload are
\* still queued: the transport runs the "connection" listener in a later tick
\* than the middlewares. A request that passes gets its socket and is queued.
Admit(address, sessionId) ==
  LET r == reconnectionMiddleare(St, sessionId)
      e == [NoEvent EXCEPT !.op = "handshake", !.address = address, !.sid = sessionId]
  IN /\ \A i \in 1..Len(pending) : pending[i].address = address
     /\ IF isAddressBlocked(St, address)
        THEN /\ Record(St, [e EXCEPT !.status = "refused",
                              !.message = "Too many connections from the same address."])
             /\ UNCHANGED <<nextId, now, pending>>
        ELSE IF r.error # ""
        THEN /\ Record(r.S, [e EXCEPT !.status = "refused", !.message = r.error,
                               !.via = r.via])
             /\ UNCHANGED <<nextId, now, pending>>
        ELSE /\ nextId <= MaxSockets
             /\ Record(r.S, [e EXCEPT !.status = "admitted", !.sock = nextId,
                               !.via = r.via])
             /\ pending' = Append(pending, [sock |-> nextId, address |-> address,
                                            sessionId |-> sessionId, data |-> r.data,
                                            via |-> r.via])
             /\ nextId' = nextId + 1
             /\ UNCHANGED now

\* The "connection" listener runs for the oldest queued socket.
Established ==
  /\ pending # <<>>
  /\ LET p == Head(pending)
     IN Record(connection(St, p.sock, p.address, p.data),
               [NoEvent EXCEPT !.op = "connection", !.status = "accepted",
                  !.sock = p.sock, !.address = p.address, !.sid = p.sessionId,
                  !.via = p.via])
  /\ pending' = Tail(pending)
  /\ UNCHANGED <<nextId, now>>

Answer(c, op, args, r) ==
  /\ Commit(r.S, [NoEvent EXCEPT !.op = op, !.sock = c, !.args = args,
                    !.sid = clients[c].data.sessionId,
                    !.status = r.status, !.message = r.message, !.room = r.data,
                    !.arg = r.arg])
  /\ UNCHANGED <<nextId, now>>

\* generateRoomName: any name no existing room has.
generateRoomName(S) == {roomName \in RoomNames : ~roomExists(S, roomName)}

CreateRoom(c, args) ==
  LET error == validationError(St, c, <<nonEmptyString("Username")>>, FALSE, args)
  IN IF error # ""
     THEN Answer(c, "createRoom", args, Result(St, "fail", error, NoRoom))
     ELSE \E roomName \in generateRoomName(St) :
            Answer(c, "createRoom", args, onCreateRoom(St, c, args[1], roomName))

JoinRoom(c, args) ==
  LET error == validationError(St, c,
                 <<nonEmptyString("Username"), nonEmptyString("Room name")>>, FALSE, args)
  IN IF error # ""
     THEN Answer(c, "joinRoom", args, Result(St, "fail", error, NoRoom))
     ELSE Answer(c, "joinRoom", args, onJoinRoom(St, c, args[1], args[2]))

ToggleReady(c, args) ==
  LET error == validationError(St, c, <<>>, TRUE, args)
  IN IF error # ""
     THEN Answer(c, "toggleReady", args, Result(St, "fail", error, NoRoom))
     ELSE Answer(c, "toggleReady", args, onToggleReady(St, c))

UpdateClipboard(c, args) ==
  LET error == validationError(St, c, <<string("Clipboard entry")>>, TRUE, args)
  IN IF error # ""
     THEN Answer(c, "updateClipboard", args, Result(St, "fail", error, NoRoom))
     ELSE Answer(c, "updateClipboard", args, onUpdateClipboard(St, c, args[1]))

\* The transport closes socket c for a reason of its own or of the client.
Disconnect(c, reason) ==
  /\ Commit(socketDisconnect(St, c, reason),
            [NoEvent EXCEPT !.op = "disconnect", !.sock = c, !.reason = reason,
               !.sid = clients[c].data.sessionId, !.address = clients[c].address])
  /\ UNCHANGED <<nextId, now>>

\* The interval timer fires cleanGhostSessions.
Sweep ==
  /\ Commit(cleanGhostSessions(St, ghostSessions), [NoEvent EXCEPT !.op = "sweep"])
  /\ UNCHANGED <<nextId, now>>

\* The clock advances.
Tick ==
  /\ now < MaxTime
  /\ now' = now + 1
  /\ ev' = [NoEvent EXCEPT !.op = "tick"]
  /\ sent' = <<>>
  /\ pre' = Snapshot
  /\ UNCHANGED <<clients, rooms, ghostSessions, addresses, threw, nextId, configuration,
                 pending>>

Connected == DOMAIN clients

CoreAddresses == {"10.0.0.1"}

\* Next: every event with well-formed arguments, connections from one address,
\* at most CoreSockets connections accepted over the run.
Next ==
  \/ \E address \in CoreAddresses, sessionId \in 0..(nextId - 1) :
       Handshake(address, sessionId) /\ nextId' <= CoreSockets + 1
  \/ \E c \in Connected, username \in Usernames : CreateRoom(c, <<username>>)
  \/ \E c \in Connected, username \in Usernames, roomName \in RoomNames :
       JoinRoom(c, <<username, roomName>>)
  \/ \E c \in Connected : ToggleReady(c, <<>>)
  \/ \E c \in Connected, entry \in ClipboardEntries : UpdateClipboard(c, <<entry>>)
  \/ \E c \in Connected, reason \in badReasons \cup expectedReasons : Disconnect(c, reason)
  \/ Sweep
  \/ Tick

Spec == Init /\ [][Next]_vars

NoThrow == ~threw

\* ------------------------------------------------------------- other runs
\* Connections, room creation, joins and unexpected drops only, with up to
\* MaxSockets connections; a generated room name never equals the room name
\* a ghost session still refers to.
NextRejoin ==
  \/ \E address \in CoreAddresses, sessionId \in 0..(nextId - 1) :
       Handshake(address, sessionId)
  \/ \E c \in Connected, username \in Usernames :
       /\ \A i \in 1..Len(ghostSessions) : ghostSessions[i].data.room \notin generateRoomName(St)
       /\ CreateRoom(c, <<username>>)
  \/ \E c \in Connected, username \in Usernames, roomName \in RoomNames :
       JoinRoom(c, <<username, roomName>>)
  \/ \E c \in Connected : Disconnect(c, "transport close")

SpecRejoin == Init /\ [][NextRejoin]_vars

\* A server that admits one connection per address, reached from two addresses:
\* connections, room creation, joins and disconnects.
ThrottleConfiguration ==
  [maxConnectionsFromSingleSource |-> 1, maxClipboardEntries |-> 1,
   ghostSessionLifetime |-> 1]

InitThrottle == Constructed(ThrottleConfiguration)

NextThrottle ==
  \/ \E address \in Addresses, sessionId \in 0..(nextId - 1) :
       Handshake(address, sessionId) /\ nextId' <= CoreSockets + 1
  \/ \E c \in Connected, username \in Usernames : CreateRoom(c, <<username>>)
  \/ \E c \in Connected, username \in Usernames, roomName \in RoomNames :
       JoinRoom(c, <<username, roomName>>)
  \/ \E c \in Connected, reason \in badReasons \cup expectedReasons : Disconnect(c, reason)

SpecThrottle == InitThrottle /\ [][NextThrottle]_vars

\* The server that admits one connection per address, with connect requests
\* that may arrive together in one transport payload; every other event waits
\* until the queued "connection" events have run.
NextInflight ==
  \/ \E address \in Addresses, sessionId \in 0..(nextId - 1) :
       Admit(address, sessionId) /\ nextId' <= CoreSockets + 1
  \/ Established
  \/ \E c \in Connected, username \in Usernames :
       pending = <<>> /\ CreateRoom(c, <<username>>)
  \/ \E c \in Connected, username \in Usernames, roomName \in RoomNames :
       pending = <<>> /\ JoinRoom(c, <<username, roomName>>)
  \/ \E c \in Connected, reason \in badReasons \cup expectedReasons :
       pending = <<>> /\ Disconnect(c, reason)

SpecInflight == InitThrottle /\ [][NextInflight]_vars

\* Math.random does not repeat the room name a ghost session still refers to.
NoStaleName ==
  \A i \in 1..Len(ghostSessions) : ghostSessions[i].data.room \notin generateRoomName(St)

\* A server that keeps two clipboard entries, with a host that posts up to
\* MaxPosts different entries: at most PairSockets connections, room creation
\* (no stale name), joins, toggles, clipboard updates and disconnects.
ClipboardConfiguration ==
  [maxConnectionsFromSingleSource |-> 3, maxClipboardEntries |-> 2,
   ghostSessionLifetime |-> 1]

InitClipboard == Constructed(ClipboardConfiguration)

NextClipboard ==
  \/ \E address \in CoreAddresses, sessionId \in 0..(nextId - 1) :
       Handshake(address, sessionId) /\ nextId' <= PairSockets + 1
  \/ \E c \in Connected, username \in Usernames :
       NoStaleName /\ CreateRoom(c, <<username>>)
  \/ \E c \in Connected, username \in Usernames, roomName \in RoomNames :
       JoinRoom(c, <<username, roomName>>)
  \/ \E c \in Connected : ToggleReady(c, <<>>)
  \/ \E c \in Connected, entry \in 1..MaxPosts : UpdateClipboard(c, <<entry>>)
  \/ \E c \in Connected, reason \in {"transport close", "client namespace disconnect"} :
       Disconnect(c, reason)

SpecClipboard == InitClipboard /\ [][NextClipboard]_vars

\* Requests as a client may send them: arguments that are absent, undefined,
\* empty or not strings beside well-formed ones, and room names that are a
\* connection's own id.  At most PairSockets connections, closed by the client
\* or dropped by the transport.
BadArguments == {Undefined, EmptyString, NonString}

CreateRoomArgs == {<<>>} \cup {<<username>> : username \in Usernames \cup BadArguments}

JoinRoomArgs ==
  {<<>>} \cup {<<username>> : username \in Usernames \cup BadArguments}
         \cup {<<username, roomName>> : username \in Usernames \cup BadArguments,
                                         roomName \in Names \cup BadArguments}

UpdateClipboardArgs == {<<>>} \cup {<<entry>> : entry \in ClipboardEntries \cup BadArguments}

NextRequests ==
  \/ \E address \in CoreAddresses :
       Handshake(address, NoSession) /\ nextId' <= PairSockets + 1
  \/ \E c \in Connected, args \in CreateRoomArgs : CreateRoom(c, args)
  \/ \E c \in Connected, args \in JoinRoomArgs : JoinRoom(c, args)
  \/ \E c \in Connected : ToggleReady(c, <<>>)
  \/ \E c \in Connected, args \in UpdateClipboardArgs : UpdateClipboard(c, args)
  \/ \E c \in Connected, reason \in {"transport close", "client namespace disconnect"} :
       Disconnect(c, reason)

SpecRequests == Init /\ [][NextRequests]_vars

\* The sweep and the clock under fair scheduling: setInterval runs
\* cleanGhostSessions again and again and time passes.  At most PairSockets
\* connections, room creation, joins, disconnects, sweeps and ticks; the bounded
\* clock stands for an unbounded one, so a connection is dropped only while the
\* clock can still advance by ghostSessionLifetime.
ClockCanExpire == now + configuration.ghostSessionLifetime <= MaxTime

NextSweep ==
  \/ \E address \in CoreAddresses, sessionId \in 0..(nextId - 1) :
       Handshake(address, sessionId) /\ nextId' <= PairSockets + 1
  \/ \E c \in Connected, username \in Usernames : CreateRoom(c, <<username>>)
  \/ \E c \in Connected, username \in Usernames, roomName \in RoomNames :
       JoinRoom(c, <<username, roomName>>)
  \/ \E c \in Connected : ClockCanExpire /\ Disconnect(c, "transport close")
  \/ \E c \in Connected : Disconnect(c, "client namespace disconnect")
  \/ Sweep
  \/ Tick

SpecSweep == Init /\ [][NextSweep]_vars /\ WF_vars(Sweep) /\ WF_vars(Tick)

\* Two rooms side by side: room names are drawn from WideRoomNames, with at
\* most CoreSockets connections, joins, toggles, clipboard updates, drops and
\* closes, sweeps and ticks.
\* generateRoomName without the do/while over roomExists.
generateRoomNameWide_unchecked(S) == WideRoomNames

generateRoomNameWide(S) == {roomName \in WideRoomNames : ~roomExists(S, roomName)}

CreateRoomWide(c, args) ==
  LET error == validationError(St, c, <<nonEmptyString("Username")>>, FALSE, args)
  IN IF error # ""
     THEN Answer(c, "createRoom", args, Result(St, "fail", error, NoRoom))
     ELSE \E roomName \in generateRoomNameWide(St) :
            Answer(c, "createRoom", args, onCreateRoom(St, c, args[1], roomName))

NextRooms ==
  \/ \E address \in CoreAddresses, sessionId \in 0..(nextId - 1) :
       Handshake(address, sessionId) /\ nextId' <= CoreSockets + 1
  \/ \E c \in Connected : CreateRoomWide(c, <<1>>)
  \/ \E c \in Connected, roomName \in WideRoomNames : JoinRoom(c, <<2, roomName>>)
  \/ \E c \in Connected : ToggleReady(c, <<>>)
  \/ \E c \in Connected, entry \in ClipboardEntries : UpdateClipboard(c, <<entry>>)
  \/ \E c \in Connected, reason \in {"transport close", "client namespace disconnect"} :
       Disconnect(c, reason)
  \/ Sweep
  \/ Tick

SpecRooms == Init /\ [][NextRooms]_vars

\* ------------------------------------------------------------- properties
\* The rooms created by createRoom that exist.
ExistingRooms == {roomName \in RoomNames : rooms[roomName] # <<>>}

MembersOf(roomName) == SeqToSet(rooms[roomName])

HostsOf(roomName) == {c \in MembersOf(roomName) : clients[c].data.isHost}

\* The ghost sessions the last step started with that are stored under sessionId.
PreGhosts(sessionId) ==
  SelectSeq(pre.ghostSessions, LAMBDA g : g.sessionId = sessionId)

Expired(ghostSession, time) ==
  time - ghostSession.leftAt >= configuration.ghostSessionLifetime

\* C1: in every reachable state every existing room has exactly one current
\* member whose isHost is true.
C1_ExactlyOneHost ==
  \A roomName \in ExistingRooms : Cardinality(HostsOf(roomName)) = 1

\* C2: in every reachable state the usernames of the current members of a room
\* are pairwise distinct, also after a session rejoined its room by reconnecting.
C2_UsernamesDistinct ==
  \A roomName \in ExistingRooms :
    \A c, d \in MembersOf(roomName) :
      c # d => clients[c].data.username # clients[d].data.username

\* C3: a connection presenting the sessionId of a session that was in a room
\* when it dropped unexpectedly, made before the ghost session expires, is
\* accepted, holds the session data of before the drop and is a member of the
\* same room again.
C3_ReconnectRestores ==
  (/\ ev.op = "handshake"
   /\ PreGhosts(ev.sid) # <<>>
   /\ Head(PreGhosts(ev.sid)).data.room # NoRoom
   /\ ~Expired(Head(PreGhosts(ev.sid)), pre.now))
  => /\ ev.status = "accepted"
     /\ ev.sock \in DOMAIN clients
     /\ clients[ev.sock].data = Head(PreGhosts(ev.sid)).data
     /\ InSeq(rooms[Head(PreGhosts(ev.sid)).data.room], ev.sock)

\* The last step was a toggleReady of a member of roomName that left every
\* member of the room ready before the consensus check.
UnanimousToggle(roomName) ==
  /\ ev.op = "toggleReady"
  /\ ev.status = "ok"
  /\ pre.clients[ev.sock].data.room = roomName
  /\ \A m \in SeqToSet(pre.rooms[roomName]) :
       IF m = ev.sock THEN ~pre.clients[m].data.isReady
       ELSE pre.clients[m].data.isReady

RoomReadyMessages == SelectSeq(sent, LAMBDA m : m.type = "roomReady")

\* C4: a toggleReady that makes every current member of a room ready resets
\* all their isReady flags in the same step and delivers exactly one roomReady,
\* to the room's host.
C4_UnanimousResetsAndNotifiesHost ==
  \A roomName \in RoomNames :
    UnanimousToggle(roomName)
    => /\ \A m \in MembersOf(roomName) : ~clients[m].data.isReady
       /\ Len(RoomReadyMessages) = 1
       /\ \E h \in HostsOf(roomName) : RoomReadyMessages[1].to = {h}

\* C5: after every step no existing room has all of its current members ready.
C5_NeverAllReady ==
  \A roomName \in ExistingRooms :
    \E m \in MembersOf(roomName) : ~clients[m].data.isReady

\* The last step was the disconnect of socket ev.sock, a member of a room,
\* for one of the given reasons.
MemberLeft(reasons) ==
  /\ ev.op = "disconnect"
  /\ ev.reason \in reasons
  /\ pre.clients[ev.sock].data.room # NoRoom

LeftData == pre.clients[ev.sock].data

\* C6: when the host of a room disconnects for an expected reason, the room no
\* longer exists in the resulting state and no member of the room remains a
\* connected client.
C6_HostLeaveTearsDown ==
  (MemberLeft(expectedReasons) /\ LeftData.isHost)
  => /\ rooms[LeftData.room] = <<>>
     /\ \A m \in SeqToSet(pre.rooms[LeftData.room]) : m \notin DOMAIN clients

\* C6 case: a host left on purpose a room that had another member.
C6_Witness ==
  /\ MemberLeft(expectedReasons)
  /\ LeftData.isHost
  /\ InSeq(pre.rooms[LeftData.room], ev.sock)
  /\ Len(pre.rooms[LeftData.room]) >= 2

\* C7: an unexpected disconnect of a session that is in a room stores exactly
\* one ghost session under its sessionId holding its session data and does not
\* finalize the departure: the room still exists, every other member is still
\* a connected member of it, no isReady flag changes and no roomReady is sent.
C7_UnexpectedDropKeepsRoom ==
  MemberLeft(badReasons)
  => /\ Len(SelectSeq(ghostSessions, LAMBDA g : g.sessionId = LeftData.sessionId)) = 1
     /\ \E i \in 1..Len(ghostSessions) :
          /\ ghostSessions[i].sessionId = LeftData.sessionId
          /\ ghostSessions[i].data = LeftData
          /\ ghostSessions[i].leftAt = pre.now
     /\ rooms[LeftData.room] # <<>>
     /\ \A m \in SeqToSet(pre.rooms[LeftData.room]) \ {ev.sock} :
          m \in DOMAIN clients /\ InSeq(rooms[LeftData.room], m)
     /\ \A c \in DOMAIN clients : clients[c] = pre.clients[c]
     /\ RoomReadyMessages = <<>>

\* The last step was a sweep.
Swept == ev.op = "sweep"

\* The ghost session at position i when the sweep began had expired.
ExpiredAt(i) == Expired(pre.ghostSessions[i], pre.now)

\* The room of the ghost session at position i still existed when the sweep
\* reached it: it existed when the sweep began and no expired ghost session of
\* a host of that room came earlier.
RoomStoodAt(i) ==
  /\ roomExists(pre, pre.ghostSessions[i].data.room)
  /\ \A j \in 1..(i - 1) :
       ~(/\ ExpiredAt(j)
         /\ pre.ghostSessions[j].data.isHost
         /\ pre.ghostSessions[j].data.room = pre.ghostSessions[i].data.room)

\* C8: a sweep removes exactly the ghost sessions whose age is at least
\* ghostSessionLifetime and keeps the younger ones as they were; for an expired
\* host whose room still exists every member of the room is disconnected and the
\* room ceases to exist; for an expired non-host whose room still exists the
\* consensus is re-evaluated and a roomStateChange goes to the room.
C8_SweepFinalizesExpired ==
  Swept
  => /\ ghostSessions = SelectSeq(pre.ghostSessions, LAMBDA g : ~Expired(g, pre.now))
     /\ \A i \in 1..Len(pre.ghostSessions) :
          LET data == pre.ghostSessions[i].data
          IN (ExpiredAt(i) /\ RoomStoodAt(i))
             => IF data.isHost
                THEN /\ rooms[data.room] = <<>>
                     /\ \A m \in SeqToSet(pre.rooms[data.room]) : m \notin DOMAIN clients
                ELSE /\ \E k \in 1..Len(sent) :
                          /\ sent[k].type = "roomStateChange"
                          /\ sent[k].room = data.room
                     /\ rooms[data.room] # <<>>
                          => \E m \in SeqToSet(rooms[data.room]) : ~clients[m].data.isReady

\* C8 case: a sweep met an expired ghost session of a non-host whose room
\* existed and a younger ghost session, which it kept.
C8_Witness ==
  /\ Swept
  /\ \E i \in 1..Len(pre.ghostSessions) :
       ExpiredAt(i) /\ RoomStoodAt(i) /\ ~pre.ghostSessions[i].data.isHost
  /\ \E i \in 1..Len(pre.ghostSessions) : ~ExpiredAt(i)

\* The last step was a connection attempt presenting the sessionId of a ghost
\* session whose room had ceased to exist.
OrphanAttempt ==
  /\ ev.op = "handshake"
  /\ PreGhosts(ev.sid) # <<>>
  /\ Head(PreGhosts(ev.sid)).data.room # NoRoom
  /\ ~roomExists(pre, Head(PreGhosts(ev.sid)).data.room)

OrphanRefused ==
  /\ ev.status = "refused"
  /\ ev.message = "The room for this session no longer exists."
  /\ ghostSessions = ghostDelete(pre.ghostSessions, ev.sid)
  /\ clients = pre.clients
  /\ rooms = pre.rooms
  /\ addresses = pre.addresses

\* C9 as stated: every connection presenting the sessionId of a ghost session
\* whose room no longer exists is refused with "The room for this session no
\* longer exists.", consumes the ghost entry and creates nothing.
C9_OrphanAlwaysRefused == OrphanAttempt => OrphanRefused

\* C9: a connection from an address below its connection ceiling presenting the
\* sessionId of a ghost session whose room no longer exists is refused with
\* "The room for this session no longer exists."; the ghost entry is consumed
\* and no client, session record, room or address count is created.
C9_OrphanRefusedUnlessThrottled ==
  (OrphanAttempt /\ ~isAddressBlocked(pre, ev.address)) => OrphanRefused

\* C9 case: such an attempt from an address below its ceiling while another
\* client was connected.
C9_Witness ==
  /\ OrphanAttempt
  /\ ~isAddressBlocked(pre, ev.address)
  /\ DOMAIN pre.clients # {}

\* C10: a connection presenting a sessionId whose ghost session has expired is
\* refused at handshake and does not become a connected client.
C10_ExpiredRefused ==
  (/\ ev.op = "handshake"
   /\ PreGhosts(ev.sid) # <<>>
   /\ Expired(Head(PreGhosts(ev.sid)), pre.now))
  => /\ ev.status = "refused"
     /\ DOMAIN clients = DOMAIN pre.clients

\* The last step was a connection attempt presenting the sessionId of the
\* connected client c.
Preempted(c) ==
  /\ ev.op = "handshake"
  /\ ev.sid # NoSession
  /\ c \in DOMAIN pre.clients
  /\ pre.clients[c].data.sessionId = ev.sid

\* The address had as many open connections as the ceiling allows when the
\* last step began.
AtCeiling(address) ==
  /\ address \in DOMAIN pre.addresses
  /\ pre.addresses[address] >= configuration.maxConnectionsFromSingleSource

RoomCount(roomTable) == Cardinality({n \in Names : roomTable[n] # <<>>})

\* C11: a connection (from an address below its ceiling) presenting the
\* sessionId of a still-connected session that is in a room ends up holding
\* that session's data unchanged and its membership in the room; the stale
\* connection is closed, and the number of rooms and of connected clients is
\* the same as before the attempt.
C11_PreemptKeepsEverything ==
  \A c \in SocketIds :
    (Preempted(c) /\ pre.clients[c].data.room # NoRoom /\ ~AtCeiling(ev.address))
    => /\ ev.status = "accepted"
       /\ ev.sock \in DOMAIN clients
       /\ clients[ev.sock].data = pre.clients[c].data
       /\ InSeq(rooms[pre.clients[c].data.room], ev.sock)
       /\ c \notin DOMAIN clients
       /\ Cardinality(DOMAIN clients) = Cardinality(DOMAIN pre.clients)
       /\ RoomCount(rooms) = RoomCount(pre.rooms)

\* C12: a connection attempt from an address whose count equals
\* maxConnectionsFromSingleSource is refused with "Too many connections from the
\* same address." and leaves address counts, sessions, rooms and ghost sessions
\* unchanged; the close of one of the address's connections takes it below the
\* ceiling, and a new attempt from an address below the ceiling is accepted.
C12_CeilingRefusesUntilAClose ==
  /\ (ev.op = "handshake" /\ AtCeiling(ev.address))
     => /\ ev.status = "refused"
        /\ ev.message = "Too many connections from the same address."
        /\ addresses = pre.addresses
        /\ clients = pre.clients
        /\ rooms = pre.rooms
        /\ ghostSessions = pre.ghostSessions
  /\ (ev.op = "disconnect" /\ AtCeiling(ev.address))
     => \/ ev.address \notin DOMAIN addresses
        \/ addresses[ev.address] < configuration.maxConnectionsFromSingleSource
  /\ (ev.op = "handshake" /\ ~AtCeiling(ev.address) /\ ev.sid = NoSession)
     => /\ ev.status = "accepted"
        /\ ev.sock \in DOMAIN clients
        /\ clients[ev.sock].address = ev.address

\* C12 case: an attempt from an address at its ceiling while a ghost session
\* and a connected client existed.
C12_Witness ==
  /\ ev.op = "handshake"
  /\ AtCeiling(ev.address)
  /\ pre.ghostSessions # <<>>
  /\ DOMAIN pre.clients # {}

OpenFrom(address) == {c \in DOMAIN clients : clients[c].address = address}

\* C13: in every reachable state the counter of an address equals the number
\* of open connections accepted from it, an address without an open connection
\* has no entry, and no handler has thrown (removeAddress never met an absent
\* entry).
C13_AddressCountsExact ==
  /\ \A address \in Addresses :
       IF OpenFrom(address) = {} THEN address \notin DOMAIN addresses
       ELSE /\ address \in DOMAIN addresses
            /\ addresses[address] = Cardinality(OpenFrom(address))
  /\ ~threw

\* C13 case: a connection of an address with two open connections closed.
C13_Witness ==
  /\ ev.op = "disconnect"
  /\ pre.addresses[ev.address] = 2
  /\ addresses[ev.address] = 1

\* C14: in every reachable state the clipboard of every session, connected or
\* held as a ghost, has at most maxClipboardEntries entries.
C14_ClipboardBounded ==
  /\ \A c \in DOMAIN clients :
       Len(clients[c].data.clipboard) <= configuration.maxClipboardEntries
  /\ \A i \in 1..Len(ghostSessions) :
       Len(ghostSessions[i].data.clipboard) <= configuration.maxClipboardEntries

\* The last step was a successful updateClipboard.
ClipboardUpdated == ev.op = "updateClipboard" /\ ev.status = "ok"

\* C14 case: a host whose clipboard was full posted another entry.
C14_Witness ==
  /\ ClipboardUpdated
  /\ Len(pre.clients[ev.sock].data.clipboard) = configuration.maxClipboardEntries

\* The entry followed by the previous clipboard, cut to maxClipboardEntries.
ExpectedClipboard ==
  LET old == pre.clients[ev.sock].data.clipboard
      n == IF Len(old) + 1 < configuration.maxClipboardEntries
           THEN Len(old) + 1 ELSE configuration.maxClipboardEntries
  IN [k \in 1..n |-> IF k = 1 THEN ev.args[1] ELSE old[k - 1]]

HostClipboards(roomName) ==
  {clients[c].data.clipboard :
     c \in {x \in DOMAIN clients :
              clients[x].data.isHost /\ clients[x].data.room = roomName}}
  \cup
  {ghostSessions[k].data.clipboard :
     k \in {x \in 1..Len(ghostSessions) :
              ghostSessions[x].data.isHost /\ ghostSessions[x].data.room = roomName}}

\* C16: updateClipboard from a room member that is not the host fails with
\* "This user is not a host." and changes no clipboard, and the clipboard a
\* roomStateChange of a room carries is the list of the host of the room.
C16_OnlyHostClipboard ==
  /\ (/\ ev.op = "updateClipboard"
      /\ ev.args \in Seq(ClipboardEntries \cup 1..MaxPosts)
      /\ pre.clients[ev.sock].data.room # NoRoom
      /\ ~pre.clients[ev.sock].data.isHost)
     => /\ ev.status = "fail"
        /\ ev.message = "This user is not a host."
        /\ clients = pre.clients
        /\ ghostSessions = pre.ghostSessions
  /\ \A k \in 1..Len(sent) :
       sent[k].type = "roomStateChange"
       => \A clipboard \in HostClipboards(sent[k].room) : sent[k].clipboard = clipboard

\* The isReady flags of the given members were all reset and one roomReady
\* went to a host among them.
ResetAndNotified(members) ==
  /\ \A m \in members : m \in DOMAIN clients /\ ~clients[m].data.isReady
  /\ Len(RoomReadyMessages) = 1
  /\ \E h \in members : clients[h].data.isHost /\ RoomReadyMessages[1].to = {h}

\* C17: when the only non-ready member of a room whose other members are all
\* ready is removed by an expected disconnect or by the expiry of its ghost
\* session, the remaining members' isReady flags are all reset and exactly one
\* roomReady is delivered to the host.  (The removed member is not the host.)
C17_LastUnreadyLeaves ==
  /\ (/\ MemberLeft(expectedReasons)
      /\ ~LeftData.isHost
      /\ ~LeftData.isReady
      /\ SeqToSet(pre.rooms[LeftData.room]) # {ev.sock}
      /\ \A m \in SeqToSet(pre.rooms[LeftData.room]) \ {ev.sock} :
           pre.clients[m].data.isReady)
     => ResetAndNotified(SeqToSet(pre.rooms[LeftData.room]) \ {ev.sock})
  /\ \A i \in 1..Len(pre.ghostSessions) :
       (/\ Swept
        /\ ExpiredAt(i)
        /\ \A j \in 1..Len(pre.ghostSessions) : ExpiredAt(j) => j = i
        /\ ~pre.ghostSessions[i].data.isHost
        /\ ~pre.ghostSessions[i].data.isReady
        /\ roomExists(pre, pre.ghostSessions[i].data.room)
        /\ \A m \in SeqToSet(pre.rooms[pre.ghostSessions[i].data.room]) :
             pre.clients[m].data.isReady)
       => ResetAndNotified(SeqToSet(pre.rooms[pre.ghostSessions[i].data.room]))

\* The members of the room the leaving socket was in, without that socket.
Remaining == Remove(pre.rooms[LeftData.room], ev.sock)

\* A roomStateChange of the last step went to exactly the given members of
\* roomName and lists exactly them.
StateSentTo(roomName, members) ==
  \E k \in 1..Len(sent) :
    /\ sent[k].type = "roomStateChange"
    /\ sent[k].room = roomName
    /\ sent[k].to = SeqToSet(members)
    /\ sent[k].membersState =
         [n \in 1..Len(members) |->
            [username |-> clients[members[n]].data.username,
             isReady |-> clients[members[n]].data.isReady,
             isHost |-> clients[members[n]].data.isHost]]

\* C18: when a non-host member disconnects for an expected reason the room
\* continues to exist with exactly the remaining members, the host among them
\* and none of them disconnected, and a roomStateChange listing exactly them is
\* sent to each of them.
C18_MemberLeaveKeepsRoom ==
  (MemberLeft(expectedReasons) /\ ~LeftData.isHost)
  => /\ Remaining # <<>>
     /\ rooms[LeftData.room] = Remaining
     /\ \A m \in SeqToSet(Remaining) : m \in DOMAIN clients
     /\ \E h \in SeqToSet(Remaining) : clients[h].data.isHost
     /\ StateSentTo(LeftData.room, Remaining)

\* A joinRoom whose two arguments pass the rules, from a session in no room.
WellFormedJoin ==
  /\ ev.op = "joinRoom"
  /\ Len(ev.args) = 2
  /\ ev.args[1] \in Usernames
  /\ ev.args[2] \in Names
  /\ pre.clients[ev.sock].data.room = NoRoom

\* The names under which the room directory held a connection before the step.
PreRooms == {roomName \in Names : pre.rooms[roomName] # <<>>}

\* The step changed neither the tables nor sent anything.
NothingChanged ==
  /\ clients = pre.clients
  /\ rooms = pre.rooms
  /\ ghostSessions = pre.ghostSessions
  /\ sent = <<>>

\* C19: joinRoom(username, roomName) by a session that is not in a room fails
\* with the not-found message carrying roomName when no room of that name
\* exists; otherwise fails with the taken message carrying username when a
\* current member has that username; otherwise the caller joins as a non-host.
C19_JoinChecksRoomThenUsername ==
  WellFormedJoin =>
    LET username == ev.args[1]
        roomName == ev.args[2]
    IN IF roomName \notin PreRooms
       THEN /\ ev.status = "fail"
            /\ ev.message = "Room \"<roomName>\" doesn't exist."
            /\ ev.arg = roomName
            /\ NothingChanged
       ELSE IF \E m \in SeqToSet(pre.rooms[roomName]) :
                 pre.clients[m].data.username = username
       THEN /\ ev.status = "fail"
            /\ ev.message =
                 "Username \"<username>\" is already taken by someone else in this room."
            /\ ev.arg = username
            /\ NothingChanged
       ELSE /\ ev.status = "ok"
            /\ InSeq(rooms[roomName], ev.sock)
            /\ clients[ev.sock].data.room = roomName
            /\ clients[ev.sock].data.username = username
            /\ ~clients[ev.sock].data.isHost

\* A join refused for its username by a room that createRoom made.
C19_Witness ==
  /\ WellFormedJoin
  /\ ev.args[2] \in RoomNames
  /\ ev.status = "fail"
  /\ ev.message = "Username \"<username>\" is already taken by someone else in this room."
  /\ ev.arg = ev.args[1]

\* The rules and the presence requirement initServer registers for a request.
Requests == {"createRoom", "joinRoom", "toggleReady", "updateClipboard"}

RequestRules(op) ==
  CASE op = "createRoom" -> <<nonEmptyString("Username")>>
    [] op = "joinRoom" -> <<nonEmptyString("Username"), nonEmptyString("Room name")>>
    [] op = "toggleReady" -> <<>>
    [] op = "updateClipboard" -> <<string("Clipboard entry")>>

RequiresRoom(op) == op \in {"toggleReady", "updateClipboard"}

\* The positions of the last request's arguments whose rule does not pass.
FailingPositions ==
  {k \in 1..Len(RequestRules(ev.op)) :
     ~applyRule(RequestRules(ev.op)[k], argOrUndefined(ev.args, k))[1]}

FirstFailing == CHOOSE k \in FailingPositions : \A j \in FailingPositions : k <= j

WasInRoom == pre.clients[ev.sock].data.room # NoRoom

HandlerMessages ==
  {"", "This user is not a host.", "Room \"<roomName>\" doesn't exist.",
   "Username \"<username>\" is already taken by someone else in this room."}

\* C20: for every request the argument rules are checked in positional order
\* and the first failing rule's message is returned; only if all pass is room
\* presence checked, with "already in a room" for createRoom/joinRoom from a
\* session in a room and "not yet in a room" for toggleReady/updateClipboard
\* from a session in no room; the handler runs only if both checks pass.
C20_RulesThenPresenceThenHandler ==
  ev.op \in Requests =>
    IF FailingPositions # {}
    THEN /\ ev.status = "fail"
         /\ ev.message = applyRule(RequestRules(ev.op)[FirstFailing],
                                   argOrUndefined(ev.args, FirstFailing))[2]
         /\ NothingChanged
    ELSE IF WasInRoom # RequiresRoom(ev.op)
    THEN /\ ev.status = "fail"
         /\ ev.message = IF RequiresRoom(ev.op)
                         THEN "This user is not yet in a room."
                         ELSE "This user is already in a room."
         /\ NothingChanged
    ELSE /\ ev.message \in HandlerMessages
         /\ ev.status = "ok" => sent # <<>>

\* A joinRoom from a session in a room with both arguments failing their rule:
\* the first rule's message comes back, not the second's nor the presence one.
C20_Witness ==
  /\ ev.op = "joinRoom"
  /\ WasInRoom
  /\ FailingPositions = {1, 2}
  /\ ev.message = "Username should be a non-empty string."

\* The last request was an updateClipboard from a host that is in a room.
HostUpdate ==
  /\ ev.op = "updateClipboard"
  /\ pre.clients[ev.sock].data.room # NoRoom
  /\ pre.clients[ev.sock].data.isHost

\* C21: updateClipboard(entry) from the host succeeds for every string entry,
\* the empty string included; only a missing or non-string argument is
\* rejected, with "Clipboard entry should be a string."
C21_EveryStringAccepted ==
  HostUpdate =>
    IF Len(ev.args) >= 1 /\ typeofString(ev.args[1])
    THEN ev.status = "ok"
    ELSE /\ ev.status = "fail"
         /\ ev.message = "Clipboard entry should be a string."

\* The tables are what they were before the step.
StateUnchanged ==
  /\ clients = pre.clients
  /\ rooms = pre.rooms
  /\ ghostSessions = pre.ghostSessions
  /\ addresses = pre.addresses

\* C22: a request that returns "fail" leaves session data, room membership,
\* ghost sessions and address counts unchanged, emits no roomStateChange and no
\* roomReady and leaves the requesting connection open; every request is
\* answered with exactly one result.
C22_FailChangesNothing ==
  ev.op \in Requests =>
    /\ ev.status \in {"ok", "fail"}
    /\ ~threw
    /\ ev.status = "fail" =>
         /\ StateUnchanged
         /\ sent = <<>>
         /\ ev.sock \in DOMAIN clients

\* A request refused by its handler while the store holds a ghost session.
C22_Witness ==
  /\ ev.op \in Requests
  /\ ev.status = "fail"
  /\ ev.message \in HandlerMessages
  /\ ghostSessions # <<>>

\* The sessionId notifications of the last step.
SessionIdMessages == SelectSeq(sent, LAMBDA m : m.type = "sessionId")

\* The last step accepted a connection that is still open.
Accepted ==
  /\ ev.op = "handshake"
  /\ ev.status = "accepted"
  /\ ev.sock \in DOMAIN clients

\* The accepted connection presented the sessionId of a ghost session or of a
\* connection that was open.
Resumed ==
  \/ PreGhosts(ev.sid) # <<>>
  \/ \E c \in DOMAIN pre.clients : pre.clients[c].data.sessionId = ev.sid

\* C23: a connection receives the sessionId notification, once and carrying
\* the sessionId of its session record, if and only if it is a new connection;
\* one that resumes a session (a ghost or a still-connected one, in a room or
\* not) receives none and keeps the session's original sessionId.
C23_SessionIdOnlyForNew ==
  Accepted =>
    IF ev.sid # NoSession /\ Resumed
    THEN /\ SessionIdMessages = <<>>
         /\ clients[ev.sock].data.sessionId = ev.sid
    ELSE /\ Len(SessionIdMessages) = 1
         /\ SessionIdMessages[1].to = {ev.sock}
         /\ SessionIdMessages[1].sessionId = clients[ev.sock].data.sessionId

\* The last step closed a connection whose session was in no room.
DroppedOutsideRoom ==
  /\ ev.op = "disconnect"
  /\ pre.clients[ev.sock].data.room = NoRoom

\* C24: a connection that drops, for any reason, before creating or joining a
\* room leaves no ghost session entry and no address-counter entry behind.
C24_NoGhostOutsideRoom ==
  DroppedOutsideRoom =>
    /\ SelectSeq(ghostSessions, LAMBDA g : g.sessionId = ev.sid) = <<>>
    /\ IF OpenFrom(ev.address) = {} THEN ev.address \notin DOMAIN addresses
       ELSE addresses[ev.address] = Cardinality(OpenFrom(ev.address))

\* The store holds a ghost session of sessionId.
IsGhost(sessionId) ==
  \E i \in 1..Len(ghostSessions) : ghostSessions[i].sessionId = sessionId

\* The store holds the ghost session of the host of roomName.
IsHostGhost(sessionId, roomName) ==
  \E i \in 1..Len(ghostSessions) :
    /\ ghostSessions[i].sessionId = sessionId
    /\ ghostSessions[i].data.isHost
    /\ ghostSessions[i].data.room = roomName

\* A connection holds the session.
HasReturned(sessionId) ==
  \E c \in DOMAIN clients : clients[c].data.sessionId = sessionId

\* C25: under a fairly scheduled sweep and an advancing clock every ghost
\* session is eventually removed from the store, and a room whose host dropped
\* unexpectedly is eventually torn down, its members disconnected, unless the
\* host has returned.
C25_GhostsEventuallyRemoved ==
  /\ \A sessionId \in SocketIds : IsGhost(sessionId) ~> ~IsGhost(sessionId)
  /\ \A sessionId \in SocketIds, roomName \in RoomNames :
       IsHostGhost(sessionId, roomName)
         ~> (~IsGhost(sessionId) /\ (HasReturned(sessionId) \/ rooms[roomName] = <<>>))

\* A sweep removed the expired ghost session of a host and disconnected the
\* member that was waiting in its room.
C25_Witness ==
  /\ Swept
  /\ ghostSessions = <<>>
  /\ \E i \in 1..Len(pre.ghostSessions) :
       LET data == pre.ghostSessions[i].data
       IN /\ data.isHost
          /\ data.room # NoRoom
          /\ pre.rooms[data.room] # <<>>
          /\ rooms[data.room] = <<>>
          /\ \A m \in SeqToSet(pre.rooms[data.room]) : m \notin DOMAIN clients

\* A member toggled while the store held a ghost session of its room that was
\* not ready when it dropped.
ToggleBesideUnreadyGhost ==
  /\ ev.op = "toggleReady"
  /\ ev.status = "ok"
  /\ \E i \in 1..Len(pre.ghostSessions) :
       /\ pre.ghostSessions[i].data.room = pre.clients[ev.sock].data.room
       /\ ~pre.ghostSessions[i].data.isReady

\* C26: while a session is a ghost its isReady value keeps counting in its
\* room's consensus: if the ghost was not ready, a toggle by a remaining member
\* produces neither a reset nor a roomReady.
C26_GhostCountsInConsensus ==
  ToggleBesideUnreadyGhost =>
    /\ RoomReadyMessages = <<>>
    /\ clients[ev.sock].data.isReady = ~pre.clients[ev.sock].data.isReady
    /\ \A m \in (DOMAIN clients) \ {ev.sock} :
         clients[m].data.isReady = pre.clients[m].data.isReady

\* The ghost sessions of hosts of roomName that the store held before the
\* step and still holds after it.
HostGhostsOf(roomName) ==
  {i \in 1..Len(ghostSessions) :
     /\ ghostSessions[i].data.isHost
     /\ ghostSessions[i].data.room = roomName
     /\ PreGhosts(ghostSessions[i].sessionId) # <<>>}

\* C27: while the host of a room is a ghost, every roomStateChange sent to the
\* room still carries the host's clipboard as it was when the host dropped.
C27_GhostHostClipboardKept ==
  \A k \in 1..Len(sent) :
    sent[k].type = "roomStateChange"
    => \A i \in HostGhostsOf(sent[k].room) :
         sent[k].clipboard = ghostSessions[i].data.clipboard

\* The roomReady message m went to one connection, the host of a room of
\* which it is a member, and every member of that room is reset after the step
\* and was ready before it (the toggling member became ready in it).
DeliveredToHostOnConsensus(m) ==
  \E h \in DOMAIN clients :
    /\ m.to = {h}
    /\ clients[h].data.isHost
    /\ clients[h].data.room = m.room
    /\ InSeq(rooms[m.room], h)
    /\ \A c \in SeqToSet(rooms[m.room]) :
         /\ ~clients[c].data.isReady
         /\ c \in DOMAIN pre.clients
            => IF ev.op = "toggleReady" /\ c = ev.sock
               THEN ~pre.clients[c].data.isReady
               ELSE pre.clients[c].data.isReady

\* C28: roomReady is only ever delivered to the connection of the host of the
\* room in which consensus was reached, never to a non-host member or to a
\* client of another room, and only in a step in which all current members of
\* that room were ready and were reset.
C28_RoomReadyOnlyToHost ==
  \A k \in 1..Len(sent) :
    sent[k].type = "roomReady" => DeliveredToHostOnConsensus(sent[k])

\* The state of roomName in the tables T: its members in room order with
\* what a roomStateChange lists of each, and the clipboard of its host.
RoomStateIn(T, roomName) ==
  LET members == T.rooms[roomName]
      hosts == SelectSeq(members, LAMBDA m : T.clients[m].data.isHost)
  IN [members |-> members,
      membersState |->
        [i \in 1..Len(members) |->
           [username |-> T.clients[members[i]].data.username,
            isReady |-> T.clients[members[i]].data.isReady,
            isHost |-> T.clients[members[i]].data.isHost]],
      clipboard |-> IF hosts = <<>> THEN <<>> ELSE T.clients[Head(hosts)].data.clipboard]

\* The roomStateChange messages the last step sent to roomName.
StateMessages(roomName) ==
  SelectSeq(sent, LAMBDA m : m.type = "roomStateChange" /\ m.room = roomName)

\* C29: after every step, every existing room whose membership, readiness or
\* clipboard the step changed has been sent a roomStateChange in that step, and
\* the last one went to all its current members and equals its current state.
C29_ChangeIsBroadcast ==
  \A roomName \in RoomNames :
    (rooms[roomName] # <<>>
       /\ RoomStateIn(Snapshot, roomName) # RoomStateIn(pre, roomName))
    => /\ StateMessages(roomName) # <<>>
       /\ LET last == StateMessages(roomName)[Len(StateMessages(roomName))]
              current == RoomStateIn(Snapshot, roomName)
          IN /\ last.to = SeqToSet(current.members)
             /\ last.membersState = current.membersState
             /\ last.clipboard = current.clipboard

\* The last step was a connection attempt from an address at its ceiling that
\* presented the sessionId of a ghost session or of an open connection.
ThrottledResume ==
  /\ ev.op = "handshake"
  /\ AtCeiling(ev.address)
  /\ ev.sid # NoSession
  /\ \/ PreGhosts(ev.sid) # <<>>
     \/ \E c \in DOMAIN pre.clients : pre.clients[c].data.sessionId = ev.sid

\* C30: the address ceiling is checked before the reconnection protocol: an
\* attempt from an address at its ceiling presenting the sessionId of a ghost
\* session or of a still-connected session is refused with the throttle
\* message, the ghost entry is not consumed and the session is not closed.
C30_ThrottleBeforeReconnect ==
  ThrottledResume =>
    /\ ev.status = "refused"
    /\ ev.message = "Too many connections from the same address."
    /\ ghostSessions = pre.ghostSessions
    /\ clients = pre.clients
    /\ rooms = pre.rooms
    /\ sent = <<>>

\* A throttled attempt presented the sessionId of a ghost session whose room
\* still existed.
C30_Witness ==
  /\ ThrottledResume
  /\ PreGhosts(ev.sid) # <<>>
  /\ roomExists(pre, Head(PreGhosts(ev.sid)).data.room)
  /\ ev.status = "refused"

\* The created rooms of which connection c is a member in the directory.
CreatedRoomsOf(c) == {roomName \in WideRoomNames : InSeq(rooms[roomName], c)}

\* C31: for every connected session, room is non-null exactly when its
\* connection is a member, in the room directory, of the room named by room,
\* and it is a member of no other created room; as this holds after every
\* step, the field and the membership change in the same step.
C31_RoomFieldMatchesDirectory ==
  \A c \in DOMAIN clients :
    IF clients[c].data.room = NoRoom
    THEN CreatedRoomsOf(c) = {}
    ELSE /\ InSeq(rooms[clients[c].data.room], c)
         /\ CreatedRoomsOf(c) \subseteq {clients[c].data.room}

\* Two rooms exist side by side and a session has just joined one of them.
C31_Witness ==
  /\ \A roomName \in WideRoomNames : rooms[roomName] # <<>>
  /\ ev.op = "joinRoom"
  /\ ev.status = "ok"
  /\ Len(rooms[clients[ev.sock].data.room]) = 2

\* The rooms of the session the last step was handled for: the room of the
\* caller before and after a request, of the closed connection, of the session
\* whose sessionId a connection presented, of the ghost sessions a sweep found
\* expired.
EventRooms ==
  CASE ev.op \in Requests ->
         {pre.clients[ev.sock].data.room, clients[ev.sock].data.room}
    [] ev.op = "disconnect" -> {pre.clients[ev.sock].data.room}
    [] ev.op = "handshake" ->
         {pre.ghostSessions[i].data.room :
            i \in {j \in 1..Len(pre.ghostSessions) :
                     pre.ghostSessions[j].sessionId = ev.sid}}
         \cup {pre.clients[c].data.room :
                 c \in {d \in DOMAIN pre.clients :
                          ev.sid # NoSession /\ pre.clients[d].data.sessionId = ev.sid}}
    [] ev.op = "sweep" ->
         {pre.ghostSessions[i].data.room :
            i \in {j \in 1..Len(pre.ghostSessions) : ExpiredAt(j)}}
    [] OTHER -> {}

\* The step left roomName alone: same members, all still connected with the
\* session data they had, and no message to the room or to one of its members.
Untouched(roomName) ==
  /\ rooms[roomName] = pre.rooms[roomName]
  /\ \A m \in SeqToSet(pre.rooms[roomName]) :
       /\ m \in DOMAIN clients
       /\ clients[m].data = pre.clients[m].data
  /\ \A k \in 1..Len(sent) :
       /\ sent[k].room # roomName
       /\ sent[k].to \cap SeqToSet(pre.rooms[roomName]) = {}

\* A sweep found expired the ghost session of the host of an earlier room
\* while a later room of the same name stood, with its own host connected.
SweptGhostOfEarlierRoom(i) ==
  /\ Swept
  /\ ExpiredAt(i)
  /\ pre.ghostSessions[i].data.isHost
  /\ pre.ghostSessions[i].data.room \in WideRoomNames
  /\ \E h \in SeqToSet(pre.rooms[pre.ghostSessions[i].data.room]) :
       /\ pre.clients[h].data.isHost
       /\ pre.clients[h].data.sessionId # pre.ghostSessions[i].sessionId

\* C32: an event handled for a session of room R1 never changes the
\* membership, readiness or clipboard of a different room R2, never disconnects
\* a member of R2 and delivers nothing to a member of R2; in particular a room
\* created later is not affected by the ghost session left over from an earlier
\* room.
C32_RoomsIndependent ==
  /\ \A roomName \in WideRoomNames \ EventRooms : Untouched(roomName)
  /\ \A i \in 1..Len(pre.ghostSessions) :
       SweptGhostOfEarlierRoom(i) => Untouched(pre.ghostSessions[i].data.room)

\* The last step was a createRoom with a username, from a session in no room.
CreateOutsideRoom ==
  /\ ev.op = "createRoom"
  /\ Len(ev.args) >= 1
  /\ ev.args[1] \in Usernames
  /\ pre.clients[ev.sock].data.room = NoRoom

\* C33: createRoom(username) by a session not in a room returns ok with a room
\* name no existing room had; afterwards that room exists with the caller as
\* its only member, with the given username, isHost = true and isReady =
\* false, and the caller receives a roomStateChange showing exactly that.
C33_CreateRoomMakesFreshRoom ==
  CreateOutsideRoom =>
    /\ ev.status = "ok"
    /\ ev.room \in AllNames
    /\ pre.rooms[ev.room] = <<>>
    /\ rooms[ev.room] = <<ev.sock>>
    /\ clients[ev.sock].data.room = ev.room
    /\ clients[ev.sock].data.username = ev.args[1]
    /\ clients[ev.sock].data.isHost
    /\ ~clients[ev.sock].data.isReady
    /\ Len(sent) = 1
    /\ sent[1].type = "roomStateChange"
    /\ sent[1].to = {ev.sock}
    /\ sent[1].membersState =
         <<[username |-> ev.args[1], isReady |-> FALSE, isHost |-> TRUE]>>

\* A room was created while another room existed.
C33_Witness ==
  /\ CreateOutsideRoom
  /\ ev.status = "ok"
  /\ \E roomName \in WideRoomNames : pre.rooms[roomName] # <<>>

\* A host alone in its room, and not ready, toggled.
SolitaryHostToggle ==
  /\ ev.op = "toggleReady"
  /\ ev.status = "ok"
  /\ pre.clients[ev.sock].data.isHost
  /\ ~pre.clients[ev.sock].data.isReady
  /\ pre.rooms[pre.clients[ev.sock].data.room] = <<ev.sock>>

\* C34: no roomStateChange lists every member with isReady = true; a solitary
\* host toggling ready receives roomReady and a state with isReady = false.
C34_NoBroadcastAllReady ==
  /\ \A k \in 1..Len(sent) :
       sent[k].type = "roomStateChange"
       => \E j \in 1..Len(sent[k].membersState) : ~sent[k].membersState[j].isReady
  /\ SolitaryHostToggle
     => /\ \E k \in 1..Len(sent) : sent[k].type = "roomReady" /\ ev.sock \in sent[k].to
        /\ ~clients[ev.sock].data.isReady

\* Connection c held, before the step, a session in a room that an earlier
\* connection had opened (a session's id is the id of its first connection).
ResumedInRoom(c) ==
  /\ c \in DOMAIN pre.clients
  /\ pre.clients[c].data.sessionId # c
  /\ pre.clients[c].data.room # NoRoom

\* No ghost session of another session of the room of c had expired when the
\* sweep began.
NoOtherExpiry(c) ==
  \A i \in 1..Len(pre.ghostSessions) :
    (ExpiredAt(i) /\ pre.ghostSessions[i].data.room = pre.clients[c].data.room)
    => pre.ghostSessions[i].sessionId = pre.clients[c].data.sessionId

\* C35: once a reconnect has consumed a ghost session no later sweep
\* finalizes it: a sweep leaves the reconnected session connected, with its
\* data, and its room and the room's members in place, and sends the room
\* nothing.
C35_ConsumedGhostNotSwept ==
  Swept =>
    \A c \in SocketIds :
      (ResumedInRoom(c) /\ NoOtherExpiry(c))
      => /\ c \in DOMAIN clients
         /\ clients[c].data = pre.clients[c].data
         /\ rooms[pre.clients[c].data.room] = pre.rooms[pre.clients[c].data.room]
         /\ \A m \in SeqToSet(pre.rooms[pre.clients[c].data.room]) : m \in DOMAIN clients
         /\ \A k \in 1..Len(sent) : sent[k].room # pre.clients[c].data.room

\* A sweep ran, the clock past the lifetime of every ghost session made at
\* time 0, over a room of two in which a session had reconnected.
C35_Witness ==
  /\ Swept
  /\ pre.now >= configuration.ghostSessionLifetime
  /\ \E c \in SocketIds :
       /\ ResumedInRoom(c)
       /\ NoOtherExpiry(c)
       /\ Len(pre.rooms[pre.clients[c].data.room]) = 2

\* C36: when a connected session in a room is preempted by a new connection
\* presenting its sessionId, every other member of the room stays connected
\* and in the room with its isReady flag unchanged, and the step delivers no
\* roomReady; also when the preempted session is the host, or the only member
\* that is not ready.
C36_PreemptSparesOthers ==
  \A c \in SocketIds :
    (Preempted(c) /\ ev.status = "accepted" /\ pre.clients[c].data.room # NoRoom)
    => /\ \A m \in SeqToSet(pre.rooms[pre.clients[c].data.room]) \ {c} :
            /\ m \in DOMAIN clients
            /\ InSeq(rooms[pre.clients[c].data.room], m)
            /\ clients[m].data.isReady = pre.clients[m].data.isReady
       /\ \A k \in 1..Len(sent) : sent[k].type # "roomReady"

\* C37: in every reachable state no address is counted with more than
\* maxConnectionsFromSingleSource open connections, and none has more than
\* that many connections open, also while connect requests of the address are
\* between the middleware chain and their "connection" event.
C37_CeilingHoldsInFlight ==
  \A address \in Addresses :
    /\ address \in DOMAIN addresses
       => addresses[address] <= configuration.maxConnectionsFromSingleSource
    /\ Cardinality(OpenFrom(address)) <= configuration.maxConnectionsFromSingleSource

\* The names createRoom hands out.
CreatedNames == RoomNames \cup WideRoomNames

\* A connected member of the room is its host.
HostMemberOf(roomName) ==
  \E c \in SeqToSet(rooms[roomName]) :
    clients[c].data.isHost /\ clients[c].data.room = roomName

\* A ghost session of a host of the room is held.
HostGhostOf(roomName) ==
  \E i \in 1..Len(ghostSessions) :
    ghostSessions[i].data.isHost /\ ghostSessions[i].data.room = roomName

C39_JoinOnlyCreatedRooms ==
  /\ (ev.op = "joinRoom" /\ ev.status = "ok")
     => /\ ev.args[2] \in CreatedNames
        /\ pre.rooms[ev.args[2]] # <<>>
  /\ (WellFormedJoin /\ ev.args[2] \in SocketIds)
     => /\ ev.status = "fail"
        /\ ev.message = "Room \"<roomName>\" doesn't exist."
        /\ ev.arg = ev.args[2]

\* C40: in every reachable state at most one connected client holds a given
\* sessionId, at most one ghost session is held per sessionId, and no
\* sessionId has a connected client and a ghost session at once.
C40_OneHolderPerSession ==
  /\ \A c, d \in DOMAIN clients :
       clients[c].data.sessionId = clients[d].data.sessionId => c = d
  /\ \A i, j \in 1..Len(ghostSessions) :
       ghostSessions[i].sessionId = ghostSessions[j].sessionId => i = j
  /\ \A c \in DOMAIN clients : \A i \in 1..Len(ghostSessions) :
       clients[c].data.sessionId # ghostSessions[i].sessionId

\* C40 case: a connection took over a session in a room, from its ghost
\* session or from its connected client, while another ghost session is held.
C40_Witness ==
  /\ ev.op = "handshake" /\ ev.status = "accepted"
  /\ ev.via \in {"ghost", "existing"}
  /\ ev.sock \in DOMAIN clients
  /\ clients[ev.sock].data.sessionId = ev.sid
  /\ clients[ev.sock].data.room # NoRoom
  /\ ghostSessions # <<>>

=============================================================================
